---- MODULE Spec2Model ----
(***************************************************************************)
(* Model of parsedmarc/loganalytics.py: LogAnalyticsConfig,                *)
(* LogAnalyticsClient.__init__, publish_json and publish_results.          *)
(*                                                                         *)
(* One LogAnalyticsClient is constructed from seven strings and then       *)
(* publish_results is invoked on it up to MaxCalls times.  A call is split *)
(* at its blocking points: the two gates and the return of each            *)
(* logs_client.upload.  The ingestion client is the environment: each      *)
(* upload either returns or raises one of the exceptions in Raised.        *)
(***************************************************************************)
EXTENDS Integers, Sequences, FiniteSets, TLC

(* ------------------------------- bounds -------------------------------- *)
MaxCalls == 2
MaxLen == 1

(* ------------------------------ data model ----------------------------- *)
Fields ==
  {"client_id", "client_secret", "tenant_id", "dce",
   "dcr_immutable_id", "dcr_aggregate_stream", "dcr_forensic_stream"}

\* The values a caller passes for a setting: the empty string or a name.
FieldValues ==
  [client_id            |-> {"", "app-1"},
   client_secret        |-> {"", "s3cret"},
   tenant_id            |-> {"", "tenant-1"},
   dce                  |-> {"", "https://dce"},
   dcr_immutable_id     |-> {"", "dcr-1"},
   dcr_aggregate_stream |-> {"", "Custom-A", "Custom-B"},
   dcr_forensic_stream  |-> {"", "Custom-A", "Custom-B"}]

\* The argument lists LogAnalyticsClient can be constructed with.
CtorArgs ==
  [client_id            : FieldValues.client_id,
   client_secret        : FieldValues.client_secret,
   tenant_id            : FieldValues.tenant_id,
   dce                  : FieldValues.dce,
   dcr_immutable_id     : FieldValues.dcr_immutable_id,
   dcr_aggregate_stream : FieldValues.dcr_aggregate_stream,
   dcr_forensic_stream  : FieldValues.dcr_forensic_stream]

\* LogAnalyticsConfig.__init__: the seven arguments stored field by field.
LogAnalyticsConfig(a) ==
  [client_id            |-> a.client_id,
   client_secret        |-> a.client_secret,
   tenant_id            |-> a.tenant_id,
   dce                  |-> a.dce,
   dcr_immutable_id     |-> a.dcr_immutable_id,
   dcr_aggregate_stream |-> a.dcr_aggregate_stream,
   dcr_forensic_stream  |-> a.dcr_forensic_stream]

NoConf == [f \in Fields |-> ""]

\* Exceptions are (class, message) pairs; NoError stands for "nothing raised".
NoError == [type |-> "none", msg |-> ""]

LogAnalyticsException(m) == [type |-> "LogAnalyticsException", msg |-> m]

ConfigMessage == "Invalid configuration. One or more required settings are missing."

\* Truth value of a str in Python: only the empty string is falsy.
StrTruthy(s) == s # ""

\* Mutant: the settings are joined by "and": invalid only when all are missing.
InvalidConfAllMissing(c) ==
  /\ ~StrTruthy(c.client_id)
  /\ ~StrTruthy(c.client_secret)
  /\ ~StrTruthy(c.tenant_id)
  /\ ~StrTruthy(c.dce)
  /\ ~StrTruthy(c.dcr_immutable_id)
  /\ ~StrTruthy(c.dcr_aggregate_stream)
  /\ ~StrTruthy(c.dcr_forensic_stream)

\* Mutant: the last setting is not looked at.
InvalidConfSkipsForensic(c) ==
  \/ ~StrTruthy(c.client_id)
  \/ ~StrTruthy(c.client_secret)
  \/ ~StrTruthy(c.tenant_id)
  \/ ~StrTruthy(c.dce)
  \/ ~StrTruthy(c.dcr_immutable_id)
  \/ ~StrTruthy(c.dcr_aggregate_stream)

\* The condition of the if in LogAnalyticsClient.__init__.
InvalidConf(c) ==
  \/ ~StrTruthy(c.client_id)
  \/ ~StrTruthy(c.client_secret)
  \/ ~StrTruthy(c.tenant_id)
  \/ ~StrTruthy(c.dce)
  \/ ~StrTruthy(c.dcr_immutable_id)
  \/ ~StrTruthy(c.dcr_aggregate_stream)
  \/ ~StrTruthy(c.dcr_forensic_stream)

(* ---------------------------- results bundle --------------------------- *)
Keys == {"aggregate_reports", "forensic_reports"}

Reports == {"r1", "r2"}

ReportLists == UNION {[1..n -> Reports] : n \in 0..MaxLen}

\* What a key of the bundle can hold: None, or a list of report records.
PyNone == [kind |-> "None", items |-> <<>>]

PyList(s) == [kind |-> "list", items |-> s]

Values == {PyNone} \cup {PyList(s) : s \in ReportLists}

\* The mappings a caller can pass: each key present or not.
Bundles == UNION {[K -> Values] : K \in SUBSET Keys}

NoBundle == [k \in {} |-> PyNone]

\* Truth value of None or a list in Python.
Truthy(v) == v.kind = "list" /\ Len(v.items) > 0

(* --------------------------- ingestion client -------------------------- *)
UploadOk == [type |-> "ok", msg |-> ""]

\* What logs_client.upload can raise: an HttpResponseError, or an error of
\* azure.core that is not one (the request never got a response).
Raised ==
  {[type |-> "HttpResponseError", msg |-> "403 Forbidden"],
   [type |-> "ServiceRequestError", msg |-> "connection refused"]}

Responses == {UploadOk} \cup Raised

\* Mutant: the credential of the first invocation is kept and handed out again.
ClientSecretCredentialCached(c, n) ==
  [tenant_id |-> c.tenant_id, client_id |-> c.client_id,
   client_secret |-> c.client_secret, madeBy |-> 1]

\* ClientSecretCredential(tenant_id=..., client_id=..., client_secret=...),
\* built by invocation n.
ClientSecretCredential(c, n) ==
  [tenant_id |-> c.tenant_id, client_id |-> c.client_id,
   client_secret |-> c.client_secret, madeBy |-> n]

NoCredential == [tenant_id |-> "", client_id |-> "", client_secret |-> "", madeBy |-> 0]

\* LogsIngestionClient(conf.dce, credential=credential), built by invocation n.
LogsIngestionClient(c, cred, n) ==
  [endpoint |-> c.dce, credential |-> cred, madeBy |-> n]

NoClient == [endpoint |-> "", credential |-> NoCredential, madeBy |-> 0]

\* The arguments of logs_client.upload as publish_json passes them, with the
\* call site (step) and the client the call is made on; the response is
\* Pending until upload returns or raises.
Pending == [type |-> "pending", msg |-> ""]

UploadCall(st, c, dcr_stream, logs, client) ==
  [step |-> st, rule |-> c.dcr_immutable_id, stream |-> dcr_stream,
   logs |-> logs, client |-> client, response |-> Pending]

(* ------------------------- publish_json, gates -------------------------- *)
\* Mutant: the except clause returns instead of raising.
PublishJsonSwallows(resp) == NoError

\* Mutant: the wrapped message lacks the "Upload failed: " prefix.
PublishJsonBareMessage(resp) ==
  IF resp = UploadOk THEN NoError
  ELSE IF resp.type = "HttpResponseError" THEN LogAnalyticsException(resp.msg)
  ELSE resp

\* publish_json's try/except around logs_client.upload: what the call
\* raises (NoError when it returns) given what upload did.
PublishJson(resp) ==
  IF resp = UploadOk THEN NoError
  ELSE IF resp.type = "HttpResponseError"
       THEN LogAnalyticsException("Upload failed: " \o resp.msg)
  ELSE resp

\* Mutant: save_aggregate is not part of the condition.
AggregateGateIgnoresFlag(r, c, save) ==
  IF "aggregate_reports" \notin DOMAIN r THEN "KeyError"
  ELSE IF /\ Truthy(r["aggregate_reports"])
          /\ StrTruthy(c.dcr_aggregate_stream)
          /\ Len(r["aggregate_reports"].items) > 0
       THEN "upload"
  ELSE "skip"

\* Mutant: the condition starts at len(...), which raises on None.
AggregateGateNoTruthTest(r, c, save) ==
  IF "aggregate_reports" \notin DOMAIN r THEN "KeyError"
  ELSE IF r["aggregate_reports"].kind = "None" THEN "TypeError"
  ELSE IF /\ StrTruthy(c.dcr_aggregate_stream)
          /\ Len(r["aggregate_reports"].items) > 0
          /\ save
       THEN "upload"
  ELSE "skip"

\* The first if of publish_results: results['aggregate_reports'] raises
\* KeyError when the key is missing; otherwise the and-chain decides.
AggregateGate(r, c, save) ==
  IF "aggregate_reports" \notin DOMAIN r THEN "KeyError"
  ELSE IF /\ Truthy(r["aggregate_reports"])
          /\ StrTruthy(c.dcr_aggregate_stream)
          /\ Len(r["aggregate_reports"].items) > 0
          /\ save
       THEN "upload"
  ELSE "skip"

\* Mutant: save_forensic is not part of the condition.
ForensicGateIgnoresFlag(r, c, save) ==
  IF "forensic_reports" \notin DOMAIN r THEN "KeyError"
  ELSE IF /\ Truthy(r["forensic_reports"])
          /\ StrTruthy(c.dcr_forensic_stream)
          /\ Len(r["forensic_reports"].items) > 0
       THEN "upload"
  ELSE "skip"

\* The second if of publish_results, on the forensic key, stream and flag.
ForensicGate(r, c, save) ==
  IF "forensic_reports" \notin DOMAIN r THEN "KeyError"
  ELSE IF /\ Truthy(r["forensic_reports"])
          /\ StrTruthy(c.dcr_forensic_stream)
          /\ Len(r["forensic_reports"].items) > 0
          /\ save
       THEN "upload"
  ELSE "skip"

(* -------------------------------- state -------------------------------- *)
VARIABLES
  pc,             \* "new", "rejected", "idle", or the position in publish_results
  conf,           \* self.conf
  ctorError,      \* what __init__ raised
  calls,          \* publish_results invocations started
  results,        \* the bundle of the current (last) invocation
  passed,         \* the bundle as it was when the caller passed it
  save_aggregate,
  save_forensic,
  credential,     \* local of publish_results
  logs_client,    \* local of publish_results
  uploads,        \* logs_client.upload calls of the current (last) invocation
  raised,         \* what the current (last) invocation raised
  step,           \* the last gate the current (last) invocation evaluated
  nCredentials,   \* ClientSecretCredential objects ever built
  nClients        \* LogsIngestionClient objects ever built

vars ==
  <<pc, conf, ctorError, calls, results, passed, save_aggregate,
    save_forensic, credential, logs_client, uploads, raised, step,
    nCredentials, nClients>>

Init ==
  /\ pc = "new"
  /\ conf = NoConf
  /\ ctorError = NoError
  /\ calls = 0
  /\ results = NoBundle
  /\ passed = NoBundle
  /\ save_aggregate = FALSE
  /\ save_forensic = FALSE
  /\ credential = NoCredential
  /\ logs_client = NoClient
  /\ uploads = <<>>
  /\ raised = NoError
  /\ step = "none"
  /\ nCredentials = 0
  /\ nClients = 0

\* LogAnalyticsClient.__init__
Construct(a) ==
  /\ pc = "new"
  /\ conf' = LogAnalyticsConfig(a)
  /\ IF InvalidConf(conf')
       THEN /\ pc' = "rejected"
            /\ ctorError' = LogAnalyticsException(ConfigMessage)
       ELSE /\ pc' = "idle"
            /\ ctorError' = NoError
  /\ UNCHANGED <<calls, results, passed, save_aggregate, save_forensic,
                 credential, logs_client, uploads, raised, step,
                 nCredentials, nClients>>

\* Mutant: missing keys are filled in with empty lists in the caller's mapping.
PublishResultsFillsKeys(r, sa, sf) ==
  /\ pc = "idle"
  /\ calls < MaxCalls
  /\ calls' = calls + 1
  /\ results' = [k \in Keys |-> IF k \in DOMAIN r THEN r[k] ELSE PyList(<<>>)]
  /\ passed' = r
  /\ save_aggregate' = sa
  /\ save_forensic' = sf
  /\ credential' = ClientSecretCredential(conf, calls')
  /\ nCredentials' = nCredentials + 1
  /\ logs_client' = LogsIngestionClient(conf, credential', calls')
  /\ nClients' = nClients + 1
  /\ uploads' = <<>>
  /\ raised' = NoError
  /\ step' = "none"
  /\ pc' = "aggregate"
  /\ UNCHANGED <<conf, ctorError>>

\* publish_results up to its first if: the credential and the client.
PublishResults(r, sa, sf) ==
  /\ pc = "idle"
  /\ calls < MaxCalls
  /\ calls' = calls + 1
  /\ results' = r
  /\ passed' = r
  /\ save_aggregate' = sa
  /\ save_forensic' = sf
  /\ credential' = ClientSecretCredential(conf, calls')
  /\ nCredentials' = nCredentials + 1
  /\ logs_client' = LogsIngestionClient(conf, credential', calls')
  /\ nClients' = nClients + 1
  /\ uploads' = <<>>
  /\ raised' = NoError
  /\ step' = "none"
  /\ pc' = "aggregate"
  /\ UNCHANGED <<conf, ctorError>>

\* An exception leaves publish_results: its locals are gone.
Raise(e) ==
  /\ pc' = "idle"
  /\ raised' = e
  /\ credential' = NoCredential
  /\ logs_client' = NoClient

\* publish_results returns.
Return ==
  /\ pc' = "idle"
  /\ raised' = NoError
  /\ credential' = NoCredential
  /\ logs_client' = NoClient

\* The aggregate if: skip, raise, or enter publish_json and call upload.
AggregateStep ==
  /\ pc = "aggregate"
  /\ step' = "aggregate"
  /\ LET g == AggregateGate(results, conf, save_aggregate) IN
       IF g = "upload"
         THEN /\ uploads' = Append(uploads,
                   UploadCall("aggregate", conf, conf.dcr_aggregate_stream,
                              results["aggregate_reports"].items, logs_client))
              /\ pc' = "aggregate_upload"
              /\ UNCHANGED <<raised, credential, logs_client>>
         ELSE IF g = "skip"
           THEN /\ pc' = "forensic"
                /\ UNCHANGED <<uploads, raised, credential, logs_client>>
           ELSE /\ Raise([type |-> g, msg |-> "aggregate_reports"])
                /\ UNCHANGED uploads
  /\ UNCHANGED <<conf, ctorError, calls, results, passed, save_aggregate,
                 save_forensic, nCredentials, nClients>>

\* The forensic if: skip (and return), raise, or enter publish_json.
ForensicStep ==
  /\ pc = "forensic"
  /\ step' = "forensic"
  /\ LET g == ForensicGate(results, conf, save_forensic) IN
       IF g = "upload"
         THEN /\ uploads' = Append(uploads,
                   UploadCall("forensic", conf, conf.dcr_forensic_stream,
                              results["forensic_reports"].items, logs_client))
              /\ pc' = "forensic_upload"
              /\ UNCHANGED <<raised, credential, logs_client>>
         ELSE IF g = "skip"
           THEN /\ Return
                /\ UNCHANGED uploads
           ELSE /\ Raise([type |-> g, msg |-> "forensic_reports"])
                /\ UNCHANGED uploads
  /\ UNCHANGED <<conf, ctorError, calls, results, passed, save_aggregate,
                 save_forensic, nCredentials, nClients>>

\* Mutant: an upload that raised is attempted once more before giving up.
UploadReturnsRetries(resp) ==
  /\ pc \in {"aggregate_upload", "forensic_upload"}
  /\ LET e == PublishJson(resp)
         done == [uploads EXCEPT ![Len(uploads)].response = resp]
         again == Len(uploads) = 1 \/ uploads[Len(uploads) - 1].response = UploadOk
     IN
       IF e # NoError /\ again
         THEN /\ uploads' = Append(done, [uploads[Len(uploads)] EXCEPT !.response = Pending])
              /\ UNCHANGED <<pc, raised, credential, logs_client>>
         ELSE /\ uploads' = done
              /\ IF e # NoError
                   THEN Raise(e)
                   ELSE IF pc = "aggregate_upload"
                     THEN /\ pc' = "forensic"
                          /\ UNCHANGED <<raised, credential, logs_client>>
                     ELSE Return
  /\ UNCHANGED <<conf, ctorError, calls, results, passed, save_aggregate,
                 save_forensic, step, nCredentials, nClients>>

\* logs_client.upload returns or raises inside publish_json; publish_json
\* returns to publish_results, which goes on, or raises through it.
UploadReturns(resp) ==
  /\ pc \in {"aggregate_upload", "forensic_upload"}
  /\ uploads' = [uploads EXCEPT ![Len(uploads)].response = resp]
  /\ LET e == PublishJson(resp) IN
       IF e # NoError
         THEN Raise(e)
         ELSE IF pc = "aggregate_upload"
           THEN /\ pc' = "forensic"
                /\ UNCHANGED <<raised, credential, logs_client>>
           ELSE Return
  /\ UNCHANGED <<conf, ctorError, calls, results, passed, save_aggregate,
                 save_forensic, step, nCredentials, nClients>>

Next ==
  \/ \E a \in CtorArgs : Construct(a)
  \/ \E r \in Bundles, sa \in BOOLEAN, sf \in BOOLEAN : PublishResults(r, sa, sf)
  \/ AggregateStep
  \/ ForensicStep
  \/ \E resp \in Responses : UploadReturns(resp)

Spec == Init /\ [][Next]_vars

TypeOK ==
  /\ pc \in {"new", "rejected", "idle", "aggregate", "aggregate_upload",
             "forensic", "forensic_upload"}
  /\ calls \in 0..MaxCalls
  /\ results \in Bundles
  /\ Len(uploads) <= 2

(* ------------------------------ vocabulary ------------------------------ *)
Agg == "aggregate_reports"

For == "forensic_reports"

InCall == pc \in {"aggregate", "aggregate_upload", "forensic", "forensic_upload"}

\* A publish_results invocation has returned or raised.
CallOver == pc = "idle" /\ calls > 0

StepUploads(st) == SelectSeq(uploads, LAMBDA u : u.step = st)

HasKey(k) == k \in DOMAIN passed

IsNone(k) == HasKey(k) /\ passed[k].kind = "None"

NonEmpty(k) == HasKey(k) /\ passed[k].kind = "list" /\ Len(passed[k].items) > 0

EmptyList(k) == HasKey(k) /\ passed[k].kind = "list" /\ Len(passed[k].items) = 0

ConfigurationError == LogAnalyticsException(ConfigMessage)

UploadError(e) == LogAnalyticsException("Upload failed: " \o e.msg)

KeyError(k) == [type |-> "KeyError", msg |-> k]

\* The aggregate step was skipped, or its upload returned.
AggregatePassed ==
  /\ HasKey(Agg)
  /\ \A i \in 1..Len(uploads) :
       uploads[i].step = "aggregate" => uploads[i].response = UploadOk

(* ---------------------------------- C1 ---------------------------------- *)
\* C1: construction fails with the configuration error if and only if at
\* least one of the seven parameters is empty; with all seven non-empty it
\* succeeds.
C1_ConstructionValidates ==
  pc # "new" =>
    /\ (pc = "rejected" /\ ctorError = ConfigurationError)
         <=> (\E f \in Fields : conf[f] = "")
    /\ (\A f \in Fields : conf[f] # "") => (pc # "rejected" /\ ctorError = NoError)

C1_Witness ==
  /\ pc = "rejected"
  /\ ctorError = ConfigurationError
  /\ Cardinality({f \in Fields : conf[f] = ""}) = 1

(* ---------------------------------- C2 ---------------------------------- *)
\* C2: once the aggregate step of a publish call has run, a non-empty
\* aggregate sequence with publishAggregate true has produced exactly one
\* aggregate upload call, carrying the configured rule identifier, the
\* aggregate stream name and exactly the aggregate records; with the flag
\* false or the sequence empty there is no aggregate upload call.
C2_AggregateUpload ==
  step # "none" =>
    LET ups == StepUploads("aggregate") IN
      /\ (NonEmpty(Agg) /\ save_aggregate) =>
           /\ Len(ups) = 1
           /\ ups[1].rule = conf.dcr_immutable_id
           /\ ups[1].stream = conf.dcr_aggregate_stream
           /\ ups[1].logs = passed[Agg].items
      /\ (~save_aggregate \/ EmptyList(Agg)) => Len(ups) = 0

C2_Witness ==
  /\ CallOver
  /\ raised = NoError
  /\ NonEmpty(Agg)
  /\ save_aggregate
  /\ Len(StepUploads("aggregate")) = 1

(* ---------------------------------- C3 ---------------------------------- *)
\* C3: in a publish call whose aggregate step was skipped or completed, the
\* forensic gate is evaluated, and a forensic upload (forensic stream name,
\* forensic records) is made if and only if the forensic sequence is
\* non-empty, the forensic stream is configured and publishForensic is true,
\* whatever the aggregate records and publishAggregate are.
C3_ForensicGateIndependent ==
  /\ (CallOver /\ AggregatePassed) => step = "forensic"
  /\ step = "forensic" =>
       LET ups == StepUploads("forensic") IN
         IF NonEmpty(For) /\ conf.dcr_forensic_stream # "" /\ save_forensic
           THEN /\ Len(ups) = 1
                /\ ups[1].rule = conf.dcr_immutable_id
                /\ ups[1].stream = conf.dcr_forensic_stream
                /\ ups[1].logs = passed[For].items
           ELSE Len(ups) = 0

C3_Witness ==
  /\ CallOver
  /\ NonEmpty(Agg)
  /\ ~save_aggregate
  /\ Len(StepUploads("aggregate")) = 0
  /\ Len(StepUploads("forensic")) = 1

(* ---------------------------------- C4 ---------------------------------- *)
\* C4: when upload raises a response error, publish fails with the upload
\* error "Upload failed: " followed by the original text, and that upload is
\* the last one of the call.
C4_FailFast ==
  \A i \in 1..Len(uploads) :
    uploads[i].response.type = "HttpResponseError" =>
      /\ i = Len(uploads)
      /\ pc = "idle"
      /\ raised.type = "LogAnalyticsException"
      /\ raised.msg = "Upload failed: " \o uploads[i].response.msg

\* The aggregate upload failed in a call whose forensic gate is open.
C4_Witness ==
  /\ CallOver
  /\ Len(uploads) = 1
  /\ uploads[1].step = "aggregate"
  /\ uploads[1].response.type = "HttpResponseError"
  /\ raised.msg = "Upload failed: 403 Forbidden"
  /\ ForensicGate(passed, conf, save_forensic) = "upload"

(* ---------------------------------- C5 ---------------------------------- *)
\* C5 as stated: whatever error upload raises, publish fails with the upload
\* error wrapping its message.
C5_Original ==
  \A i \in 1..Len(uploads) :
    uploads[i].response \in Raised => raised = UploadError(uploads[i].response)

\* C5 as amended: an HttpResponseError raised by upload leaves publish as the
\* upload error "Upload failed: {error}"; any other error raised by upload
\* leaves publish as it is, unwrapped; no error of upload is swallowed.
C5_Amended ==
  \A i \in 1..Len(uploads) :
    uploads[i].response \in Raised =>
      /\ pc = "idle"
      /\ raised # NoError
      /\ raised = IF uploads[i].response.type = "HttpResponseError"
                    THEN UploadError(uploads[i].response)
                    ELSE uploads[i].response

C5_Witness ==
  /\ CallOver
  /\ Len(uploads) = 2
  /\ uploads[2].response.type = "HttpResponseError"
  /\ raised = LogAnalyticsException("Upload failed: 403 Forbidden")

(* ---------------------------------- C6 ---------------------------------- *)
\* C6: every publish invocation builds exactly one credential from the
\* configured (tenant id, client id, client secret) and exactly one client
\* bound to the configured endpoint, before its first gate and whether or not
\* an upload follows; every upload of an invocation is made on the client,
\* and with the credential, that this invocation built.
C6_FreshCredentialPerCall ==
  /\ nCredentials = calls
  /\ nClients = calls
  /\ InCall =>
       /\ credential.madeBy = calls
       /\ credential.tenant_id = conf.tenant_id
       /\ credential.client_id = conf.client_id
       /\ credential.client_secret = conf.client_secret
       /\ logs_client.madeBy = calls
       /\ logs_client.endpoint = conf.dce
       /\ logs_client.credential = credential
  /\ \A i \in 1..Len(uploads) :
       /\ uploads[i].client.madeBy = calls
       /\ uploads[i].client.endpoint = conf.dce
       /\ uploads[i].client.credential.madeBy = calls
       /\ uploads[i].client.credential.tenant_id = conf.tenant_id
       /\ uploads[i].client.credential.client_id = conf.client_id
       /\ uploads[i].client.credential.client_secret = conf.client_secret

\* A second invocation uploading on its own client.
C6_Witness ==
  /\ calls = 2
  /\ nCredentials = 2
  /\ Len(uploads) > 0
  /\ uploads[1].client.madeBy = 2

Absent(k) == ~HasKey(k) \/ IsNone(k)

\* C8 as stated: a call with an absent collection ends without an error due
\* to the absence and without an upload for that category, and the forensic
\* category is still gated when it is the aggregate collection that is
\* absent.
C8_Original ==
  CallOver =>
    /\ Absent(Agg) =>
         /\ raised.type \notin {"KeyError", "TypeError"}
         /\ Len(StepUploads("aggregate")) = 0
         /\ step = "forensic"
    /\ Absent(For) =>
         /\ raised.type \notin {"KeyError", "TypeError"}
         /\ Len(StepUploads("forensic")) = 0

\* C8 as amended: a collection that is None is accepted: no upload is made
\* for it, the other category is gated and uploaded as usual and publish
\* does not fail because of it.  A bundle that lacks a key makes publish
\* fail with KeyError when that category's gate is evaluated: at once for the
\* aggregate key (nothing is uploaded), after the aggregate step for the
\* forensic key (no forensic upload).
C8_Amended ==
  CallOver =>
    /\ IsNone(Agg) =>
         /\ raised.type \notin {"KeyError", "TypeError"} \/ ~HasKey(For)
         /\ Len(StepUploads("aggregate")) = 0
         /\ step = "forensic"
         /\ (ForensicGate(passed, conf, save_forensic) = "upload")
              <=> Len(StepUploads("forensic")) = 1
    /\ IsNone(For) =>
         /\ raised.type \notin {"KeyError", "TypeError"} \/ ~HasKey(Agg)
         /\ Len(StepUploads("forensic")) = 0
         /\ (AggregateGate(passed, conf, save_aggregate) = "upload")
              <=> Len(StepUploads("aggregate")) = 1
    /\ ~HasKey(Agg) =>
         /\ raised = KeyError(Agg)
         /\ uploads = <<>>
    /\ (~HasKey(For) /\ AggregatePassed) =>
         /\ raised = KeyError(For)
         /\ Len(StepUploads("forensic")) = 0

C8_Witness ==
  /\ CallOver
  /\ IsNone(Agg)
  /\ raised = NoError
  /\ Len(uploads) = 1
  /\ uploads[1].step = "forensic"
  /\ uploads[1].response = UploadOk

(* ---------------------------------- C9 ---------------------------------- *)
\* What an upload call carries.
Carried(u) == [step |-> u.step, rule |-> u.rule, stream |-> u.stream, logs |-> u.logs]

\* The upload calls a finished invocation must have made, from its
\* arguments, the configuration and the response to its first upload.
ExpectedUploads ==
  LET a == IF NonEmpty(Agg) /\ save_aggregate
             THEN <<[step |-> "aggregate", rule |-> conf.dcr_immutable_id,
                     stream |-> conf.dcr_aggregate_stream,
                     logs |-> passed[Agg].items]>>
             ELSE <<>>
      f == IF /\ AggregatePassed
              /\ NonEmpty(For)
              /\ save_forensic
             THEN <<[step |-> "forensic", rule |-> conf.dcr_immutable_id,
                     stream |-> conf.dcr_forensic_stream,
                     logs |-> passed[For].items]>>
             ELSE <<>>
  IN a \o f

\* C9: no step of a Publisher changes its seven configuration fields, the
\* bundle is at every moment what the caller passed, and the uploads of a
\* finished invocation are determined by its arguments, the configuration
\* and the ingestion client's responses, whatever earlier invocations did.
C9_NoMutableState ==
  /\ [][pc # "new" => conf' = conf]_vars
  /\ [](results = passed)
  /\ [](CallOver => [i \in 1..Len(uploads) |-> Carried(uploads[i])] = ExpectedUploads)

\* A second invocation has finished with both uploads made.
C9_Witness ==
  /\ CallOver
  /\ calls = 2
  /\ Len(uploads) = 2
  /\ results = passed

(* ---------------------------------- C10 --------------------------------- *)
\* C10: a publish call makes at most one upload call per stream and at most
\* two in all; an upload that is not the last has returned successfully and
\* is the aggregate one, the one after it the forensic one; an upload that
\* raised is the last of its call, and only the last upload can be in flight.
C10_SequentialNoRetry ==
  /\ Len(StepUploads("aggregate")) <= 1
  /\ Len(StepUploads("forensic")) <= 1
  /\ Len(uploads) <= 2
  /\ \A i \in 1..Len(uploads) :
       /\ i < Len(uploads) =>
            /\ uploads[i].step = "aggregate"
            /\ uploads[i].response = UploadOk
            /\ uploads[i + 1].step = "forensic"
       /\ uploads[i].response \in Raised => (i = Len(uploads) /\ pc = "idle")
       /\ uploads[i].response = Pending =>
            (i = Len(uploads) /\ pc \in {"aggregate_upload", "forensic_upload"})

\* The forensic upload is in flight after the aggregate upload returned.
C10_Witness ==
  /\ pc = "forensic_upload"
  /\ Len(uploads) = 2
  /\ uploads[1].response = UploadOk
  /\ uploads[2].response = Pending

====
